---------------------------- MODULE Spec2Model ----------------------------
(***************************************************************************)
(* A model of the DNS wire-data layer of the `domain` crate:               *)
(*   src/src/bits/bytes.rs   BytesSlice (byte cursor), BytesBuf (sink)     *)
(*   src/src/bits/rdata.rs   RecordData, GenericRecordData                 *)
(*                                                                         *)
(* Five specifications share the module, one per component:                *)
(*   SpecCursor   the BytesSlice extractions over a borrowed view          *)
(*   SpecSink     the BytesBuf pushes into a Vec<u8>                       *)
(*   SpecScan     GenericRecordData::scan_into, one step per statement     *)
(*   SpecGeneric  GenericRecordData parse / compose / Display              *)
(*   SpecEq       GenericRecordData's PartialEq on two values              *)
(* Each leaves the other components' variables at their idle values.       *)
(***************************************************************************)
EXTENDS Integers, Sequences, FiniteSets, TLC

VARIABLES
    host,      \* byte order of the build target: "little" or "big"
    \* ---- BytesSlice ----
    mem,       \* the storage a view borrows from (never written)
    view,      \* the view the caller holds: [off, len] into mem
    last,      \* the outcome of the last extraction
    \* ---- BytesBuf (Vec<u8>) ----
    sink,      \* the vector's content
    cap,       \* the vector's capacity
    sink0,     \* the content the vector started with
    calls,     \* the calls made so far, in order
    \* ---- GenericRecordData::scan_into ----
    pc,        \* the statement scan_into is at
    scan_len,  \* the local `len`: bytes still to scan (u16)
    declared,  \* the length the input declared (-1: not scanned yet)
    target,    \* the BytesBuf scanned into: [buf, cap]
    target0,   \* the content of target when scan_into was called
    words,     \* the hex words the stream has handed out, in order
    word_pos,  \* pairs of the current hex word already decoded
    unread,    \* the hex words left in the stream when scan_into returned
    result,    \* "running", or what scan_into returned
    \* ---- GenericRecordData ----
    cursor0,   \* the cursor a value is parsed from: [ctx, pos, end]
    tag0,      \* the tag it is parsed under
    cursor,    \* the cursor after the parse
    parsed,    \* what GenericRecordData::parse returned: [kind, err]
    g,         \* the value
    g2,        \* a second value: parsed back, or to compare with
    composed,  \* the sink g was composed into
    back,      \* what parsing the composed bytes returned: [kind, left]
    same,      \* "unset", or the result of ==
    out,       \* the results of formatting g, in order
    gstep      \* what the caller has done so far

bytesVars == <<mem, view, last>>
bufVars   == <<sink, cap, sink0, calls>>
scanVars  == <<pc, scan_len, declared, target, target0, words, word_pos,
               unread, result>>
genVars   == <<cursor0, tag0, cursor, parsed, g, g2, composed, back, same,
               out, gstep>>
vars      == <<host, bytesVars, bufVars, scanVars, genVars>>

(***************************************************************************)
(* Bounds of the model.                                                    *)
(***************************************************************************)
MaxMem   == 4      \* longest storage a view borrows from
MaxCalls == 3      \* longest sequence of BytesBuf calls

\* Byte values the inputs are drawn from (all are u8 values).
ByteVals == {0, 1, 255}
Hosts    == {"little", "big"}

SeqsUpTo(S, n) == UNION {[1..k -> S] : k \in 0..n}

Max(a, b) == IF a >= b THEN a ELSE b

(***************************************************************************)
(* Integer <-> byte array reinterpretation, as the build target does it.   *)
(***************************************************************************)

\* mem::transmute::<[u8; 2], u16>: the bytes read in the host's byte order.
transmute_to_u16(h, l) ==
    IF h = "little" THEN l[1] + 256 * l[2] ELSE 256 * l[1] + l[2]

\* A u32 is held as its two 16-bit halves, [hi, lo], the value being
\* hi * 2^16 + lo: TLC's integers are 32 bits wide and signed.
U32(hi, lo) == [hi |-> hi, lo |-> lo]

\* mem::transmute::<[u8; 4], u32>
transmute_to_u32(h, l) ==
    IF h = "little"
    THEN U32(l[3] + 256 * l[4], l[1] + 256 * l[2])
    ELSE U32(256 * l[1] + l[2], 256 * l[3] + l[4])

\* mem::transmute::<u8, [u8; 1]>
transmute_u8(data) == <<data>>

\* mem::transmute::<u16, [u8; 2]>: the value's bytes in the host's order.
transmute_u16(h, x) ==
    IF h = "little" THEN <<x % 256, x \div 256>> ELSE <<x \div 256, x % 256>>

\* mem::transmute::<u32, [u8; 4]>
transmute_u32(h, x) ==
    LET b0 == x.lo % 256
        b1 == x.lo \div 256
        b2 == x.hi % 256
        b3 == x.hi \div 256
    IN  IF h = "little" THEN <<b0, b1, b2, b3>> ELSE <<b3, b2, b1, b0>>

swap_bytes16(x) == (x % 256) * 256 + (x \div 256)

swap_bytes32(x) == U32(swap_bytes16(x.lo), swap_bytes16(x.hi))

\* A faulty variant: the conversion left out, the value taken in host order.
u16_from_be_host_order(h, x) == x

\* u16::from_be: the identity on a big-endian host, a byte swap otherwise.
u16_from_be(h, x) == IF h = "big" THEN x ELSE swap_bytes16(x)

\* u32::from_be
u32_from_be(h, x) == IF h = "big" THEN x ELSE swap_bytes32(x)

\* A faulty variant: the conversion left out.
u16_to_be_host_order(h, x) == x

\* u16::to_be
u16_to_be(h, x) == IF h = "big" THEN x ELSE swap_bytes16(x)

\* u32::to_be
u32_to_be(h, x) == IF h = "big" THEN x ELSE swap_bytes32(x)

(***************************************************************************)
(* BytesSlice for [u8].  A view is [off, len] into mem: the bytes          *)
(* mem[off+1 .. off+len].  Every extraction returns                        *)
(*   [res, num, bytes, rest, reads]                                        *)
(* res    "Ok", "UnexpectedEnd", or "panic" (a slice index out of range)   *)
(* num    the integer extracted (split_u8/u16)                             *)
(* wide   the integer extracted (split_u32)                                *)
(* bytes  the sub-view extracted (split_bytes), as a view                  *)
(* rest   the remainder returned                                           *)
(* reads  the storage positions the call loaded from                       *)
(***************************************************************************)
NoView == [off |-> 0, len |-> 0]

\* The values the variables of a component hold while another one runs.
EmptyVec == [buf |-> <<>>, cap |-> 0]

BufIdle == sink = <<>> /\ cap = 0 /\ sink0 = <<>> /\ calls = <<>>

NoNest == [ctx |-> <<>>, off |-> 0, len |-> 0]

NoG == [rtype |-> "none", data |-> NoNest]

GenIdle ==
    /\ cursor0 = [ctx |-> <<>>, pos |-> 0, end |-> 0] /\ tag0 = "none"
    /\ cursor = cursor0 /\ parsed = [kind |-> "none", err |-> ""]
    /\ g = NoG /\ g2 = NoG /\ composed = <<>>
    /\ back = [kind |-> "none", left |-> 0]
    /\ same = "unset" /\ out = <<>> /\ gstep = "idle"

ScanIdle ==
    /\ pc = "idle" /\ scan_len = 0 /\ declared = -1
    /\ target = EmptyVec /\ target0 = <<>>
    /\ words = <<>> /\ word_pos = 0 /\ unread = <<>> /\ result = "idle"

ViewBytes(m, v) == [i \in 1..v.len |-> m[v.off + i]]

Failed(r) == [res |-> r, num |-> 0, wide |-> U32(0, 0), bytes |-> NoView,
              rest |-> NoView, reads |-> {}]

\* A faulty variant: an off-by-one bound, a request for every byte left
\* rejected.
check_len_strict(v, len) == IF len >= v.len THEN "UnexpectedEnd" ELSE "Ok"

\* check_len
check_len(v, len) == IF len > v.len THEN "UnexpectedEnd" ELSE "Ok"

\* <[u8]>::split_at: panics when mid > len, else the two halves.
split_at(v, mid) ==
    [ok |-> mid <= v.len,
     l  |-> [off |-> v.off, len |-> mid],
     r  |-> [off |-> v.off + mid, len |-> v.len - mid]]

split_u8(m, v) ==
    \* split_first() is None exactly on the empty slice
    IF v.len = 0 THEN Failed("UnexpectedEnd")
    ELSE [res |-> "Ok", num |-> m[v.off + 1], wide |-> U32(0, 0),
          bytes |-> NoView,
          rest |-> [off |-> v.off + 1, len |-> v.len - 1],
          reads |-> {v.off + 1}]

split_u16(h, m, v) ==
    IF check_len(v, 2) # "Ok" THEN Failed("UnexpectedEnd")
    ELSE LET s == split_at(v, 2) IN
         IF ~s.ok THEN Failed("panic")
         ELSE LET l == <<m[s.l.off + 1], m[s.l.off + 2]>> IN
              [res |-> "Ok",
               num |-> u16_from_be(h, transmute_to_u16(h, l)),
               wide |-> U32(0, 0),
               bytes |-> NoView, rest |-> s.r,
               reads |-> {s.l.off + 1, s.l.off + 2}]

split_u32(h, m, v) ==
    IF check_len(v, 4) # "Ok" THEN Failed("UnexpectedEnd")
    ELSE IF v.len < 4 THEN Failed("UnexpectedEnd")
    ELSE LET s == split_at(v, 4) IN
         IF ~s.ok THEN Failed("panic")
         ELSE LET l == [i \in 1..4 |-> m[s.l.off + i]] IN
              [res |-> "Ok",
               num |-> 0,
               wide |-> u32_from_be(h, transmute_to_u32(h, l)),
               bytes |-> NoView, rest |-> s.r,
               reads |-> {s.l.off + i : i \in 1..4}]

split_bytes(v, at) ==
    IF check_len(v, at) # "Ok" THEN Failed("UnexpectedEnd")
    ELSE LET s == split_at(v, at) IN
         IF ~s.ok THEN Failed("panic")
         ELSE [res |-> "Ok", num |-> 0, wide |-> U32(0, 0), bytes |-> s.l,
               rest |-> s.r, reads |-> {}]

tail(v, start) ==
    IF check_len(v, start) # "Ok" THEN Failed("UnexpectedEnd")
    ELSE IF v.len < start THEN Failed("UnexpectedEnd")
    ELSE [res |-> "Ok", num |-> 0, wide |-> U32(0, 0), bytes |-> NoView,
          rest |-> [off |-> v.off + start, len |-> v.len - start],
          reads |-> {}]

(***************************************************************************)
(* The cursor's caller: it holds a view, extracts from it, and goes on     *)
(* with the remainder when the extraction succeeded.  A failed extraction  *)
(* returns no view; the caller still holds the one it had (&self).         *)
(***************************************************************************)
NoLast == [op |-> "none", n |-> 0, pre |-> NoView, out |-> Failed("none")]

Extract(op, n, r) ==
    /\ last' = [op |-> op, n |-> n, pre |-> view, out |-> r]
    /\ view' = IF r.res = "Ok" THEN r.rest ELSE view
    /\ UNCHANGED <<host, mem, bufVars, scanVars, genVars>>

CallSplitU8 == Extract("split_u8", 1, split_u8(mem, view))
CallSplitU16 == Extract("split_u16", 2, split_u16(host, mem, view))
CallSplitU32 == Extract("split_u32", 4, split_u32(host, mem, view))
CallSplitBytes == \E at \in 0..(MaxMem + 1) :
                 Extract("split_bytes", at, split_bytes(view, at))
CallTail == \E start \in 0..(MaxMem + 1) :
                 Extract("tail", start, tail(view, start))

InitCursor ==
    /\ host \in Hosts
    /\ mem \in SeqsUpTo(ByteVals, MaxMem)
    /\ \E o \in 0..MaxMem, l \in 0..MaxMem :
          /\ o + l <= Len(mem)
          /\ view = [off |-> o, len |-> l]
    /\ last = NoLast
    /\ BufIdle
    /\ ScanIdle
    /\ GenIdle

NextCursor ==
    CallSplitU8 \/ CallSplitU16 \/ CallSplitU32 \/ CallSplitBytes \/ CallTail

SpecCursor == InitCursor /\ [][NextCursor]_vars

(***************************************************************************)
(* C1: every extraction (split_u8 n=1, split_u16 n=2, split_u32 n=4,       *)
(* split_bytes(n), tail(n)) fails exactly when n exceeds the length of the *)
(* view it is applied to, which is exactly when check_len(n) fails; the    *)
(* failure is UnexpectedEnd (never a panic), and after a failure the       *)
(* caller's view and the storage are what they were.                       *)
(***************************************************************************)
C1_FailsExactlyOnUnderrun ==
    last.op # "none" =>
        /\ last.out.res \in {"Ok", "UnexpectedEnd"}
        /\ (last.out.res = "UnexpectedEnd") <=> (last.n > last.pre.len)
        /\ (last.out.res = "UnexpectedEnd")
               <=> (check_len(last.pre, last.n) = "UnexpectedEnd")
        /\ last.out.res # "Ok" => view = last.pre

\* A failed extraction on a non-empty view, and one of exactly the bytes left.
C1_Witness ==
    /\ last.op \in {"split_u16", "split_u32", "split_bytes", "tail"}
    /\ last.out.res = "UnexpectedEnd"
    /\ last.pre.len > 0
    /\ view = last.pre

(***************************************************************************)
(* C2: a successful extraction of n bytes returns the value formed from    *)
(* the first n bytes of the view, most significant byte first whatever     *)
(* the host's byte order, and the remainder is the view without its first  *)
(* n bytes; split_bytes(n) returns the first n bytes and tail(n) the rest. *)
(* Only positions inside the first n bytes of the view are loaded.         *)
(***************************************************************************)
C2_ExtractsPrefixBigEndian ==
    LET b == ViewBytes(mem, last.pre)
        o == last.out
    IN  (last.op # "none" /\ o.res = "Ok") =>
        /\ last.n <= last.pre.len
        /\ ViewBytes(mem, o.rest)
               = [i \in 1..(last.pre.len - last.n) |-> b[last.n + i]]
        /\ view = o.rest
        /\ o.reads \subseteq
               {last.pre.off + i : i \in 1..last.n}
        /\ last.op = "split_u8" => o.num = b[1]
        /\ last.op = "split_u16" => o.num = b[1] * 256 + b[2]
        /\ last.op = "split_u32" =>
               /\ o.wide.hi = b[1] * 256 + b[2]
               /\ o.wide.lo = b[3] * 256 + b[4]
        /\ last.op = "split_bytes" =>
               ViewBytes(mem, o.bytes) = [i \in 1..last.n |-> b[i]]

\* A 16-bit extraction whose two bytes differ, so the byte order shows.
C2_Witness ==
    /\ last.op = "split_u16"
    /\ last.out.res = "Ok"
    /\ host = "little"
    /\ mem[last.pre.off + 1] # mem[last.pre.off + 2]
    /\ last.pre.off + last.pre.len < Len(mem)


(***************************************************************************)
(* BytesBuf for Vec<u8>.  The vector is (sink, cap); an operation maps a   *)
(* vector [buf, cap] to the vector after it.                               *)
(***************************************************************************)

\* Vec::reserve: room for `additional` more elements, growing amortised.
vec_reserve(v, additional) ==
    IF v.cap - Len(v.buf) >= additional THEN v
    ELSE [v EXCEPT !.cap = Max(2 * v.cap, Len(v.buf) + additional)]

\* BytesBuf::reserve for Vec<u8>
reserve(v, additional) == vec_reserve(v, additional)

\* BytesBuf::push_bytes for Vec<u8>: Vec::extend appends the span.
push_bytes(v, data) ==
    LET r == vec_reserve(v, Len(data)) IN
    [buf |-> r.buf \o data, cap |-> r.cap]

push_u8(v, data) == push_bytes(v, transmute_u8(data))

push_u16(h, v, data) == push_bytes(v, transmute_u16(h, u16_to_be(h, data)))

push_u32(h, v, data) == push_bytes(v, transmute_u32(h, u32_to_be(h, data)))

\* Inputs of the pushes.
U16Vals   == {258, 65280}                        \* 0x0102, 0xFF00
U32Vals   == {U32(258, 772), U32(65280, 1)}      \* 0x01020304, 0xFF000001
DataSpans == {<<>>, <<1>>, <<255, 1>>, <<0, 1, 255>>}
Reserves  == {0, 1, 5}

Call(op, num, wide, data) ==
    [op |-> op, num |-> num, wide |-> wide, data |-> data]

Did(c, v) ==
    /\ Len(calls) < MaxCalls
    /\ calls' = Append(calls, c)
    /\ sink' = v.buf
    /\ cap' = v.cap
    /\ UNCHANGED <<host, sink0, bytesVars, scanVars, genVars>>

Vec == [buf |-> sink, cap |-> cap]

CallReserve == \E n \in Reserves :
    Did(Call("reserve", n, U32(0, 0), <<>>), reserve(Vec, n))
CallPushBytes == \E d \in DataSpans :
    Did(Call("push_bytes", 0, U32(0, 0), d), push_bytes(Vec, d))
CallPushU8 == \E x \in ByteVals :
    Did(Call("push_u8", x, U32(0, 0), <<>>), push_u8(Vec, x))
CallPushU16 == \E x \in U16Vals :
    Did(Call("push_u16", x, U32(0, 0), <<>>), push_u16(host, Vec, x))
CallPushU32 == \E x \in U32Vals :
    Did(Call("push_u32", 0, x, <<>>), push_u32(host, Vec, x))

BytesIdle == mem = <<>> /\ view = NoView /\ last = NoLast

InitSink ==
    /\ host \in Hosts
    /\ sink0 \in {<<>>, <<1, 0>>}
    /\ sink = sink0
    /\ cap \in {Len(sink0), Len(sink0) + 3}
    /\ calls = <<>>
    /\ BytesIdle
    /\ ScanIdle
    /\ GenIdle

NextSink ==
    CallReserve \/ CallPushBytes \/ CallPushU8 \/ CallPushU16 \/ CallPushU32

SpecSink == InitSink /\ [][NextSink]_vars

\* The bytes a call is to append: integers most significant byte first.
Span(c) ==
    CASE c.op = "reserve"    -> <<>>
      [] c.op = "push_bytes" -> c.data
      [] c.op = "push_u8"    -> <<c.num>>
      [] c.op = "push_u16"   -> <<c.num \div 256, c.num % 256>>
      [] c.op = "push_u32"   -> <<c.wide.hi \div 256, c.wide.hi % 256,
                                  c.wide.lo \div 256, c.wide.lo % 256>>

RECURSIVE Spans(_)
Spans(cs) == IF cs = <<>> THEN <<>> ELSE Span(Head(cs)) \o Spans(Tail(cs))

(***************************************************************************)
(* C3: after any sequence of reserve, push_bytes, push_u8, push_u16 and    *)
(* push_u32 calls the sink holds its initial content followed by the       *)
(* pushed spans in call order, integers most significant byte first; so    *)
(* every push keeps what was there and grows the length by 1, 2, 4 or      *)
(* len(data), and reserve changes neither content nor length.              *)
(***************************************************************************)
C3_SinkIsPureAppend ==
    /\ sink = sink0 \o Spans(calls)
    /\ cap >= Len(sink)

\* A 16-bit and a 32-bit push after a reserve, on a little-endian host.
C3_Witness ==
    /\ host = "little"
    /\ Len(calls) = 3
    /\ calls[1].op = "reserve"
    /\ calls[2].op = "push_u16"
    /\ calls[3].op = "push_u32"
    /\ sink0 # <<>>

(***************************************************************************)
(* GenericRecordData::scan_into.  The master-file stream is the scanner's  *)
(* environment: it hands out the entry's tokens one at a time.  A hex word *)
(* is a non-empty sequence of digit pairs; a digit is 0..15, or -1 for a   *)
(* character that is no hex digit.                                         *)
(***************************************************************************)
MaxDeclared == 2   \* largest length an entry declares
MaxPairs    == 2   \* most digit pairs in one hex word

HexPairs == {<<0, 10>>, <<11, 1>>, <<-1, 0>>}    \* "0A", "B1", "?0"
HexWords == UNION {[1..k -> HexPairs] : k \in 1..MaxPairs}

\* The stream decodes a pair of hex digits into a byte.
pair_ok(p)   == p[1] \in 0..15 /\ p[2] \in 0..15
hex_value(p) == 16 * p[1] + p[2]

\* A faulty variant: the callback pushes whatever it is given.
closure_unchecked(n, t, v) ==
    [res |-> "Ok", len |-> (n + 65535) % 65536, target |-> push_u8(t, v)]

\* The callback scan_into hands to scan_hex_word, over its captures.
closure(n, t, v) ==
    IF n = 0 THEN [res |-> "LongGenericData", len |-> n, target |-> t]
    ELSE [res |-> "Ok", len |-> n - 1, target |-> push_u8(t, v)]

\* A faulty variant: the loop asks for another word after the last byte too.
while_cond_always(n) == n >= 0

\* The loop condition of scan_into.
while_cond(n) == n > 0

Return(r) ==
    /\ result' = r
    /\ pc' = "done"

\* try!(stream.skip_literal(b"\\#"))
ScanSkipLiteral ==
    /\ pc = "skip_literal"
    /\ \E ok \in BOOLEAN :
          IF ok THEN pc' = "scan_u16" /\ UNCHANGED result
          ELSE Return("StreamError")
    /\ UNCHANGED <<scan_len, declared, target, target0, words, word_pos,
                   unread>>
    /\ UNCHANGED <<host, bytesVars, bufVars, genVars>>

\* let mut len = try!(stream.scan_u16()); target.reserve(len as usize)
ScanU16 ==
    /\ pc = "scan_u16"
    /\ \E tok \in (0..MaxDeclared) \cup {-1} :
          IF tok = -1
          THEN Return("StreamError")
               /\ UNCHANGED <<scan_len, declared, target>>
          ELSE /\ scan_len' = tok
               /\ declared' = tok
               /\ target' = reserve(target, tok)
               /\ pc' = "while"
               /\ UNCHANGED result
    /\ UNCHANGED <<target0, words, word_pos, unread>>
    /\ UNCHANGED <<host, bytesVars, bufVars, genVars>>

\* while len > 0 { try!(stream.scan_hex_word(..)) } Ok(())
\* Entering the loop body, scan_hex_word takes the next word of the entry,
\* and fails when the entry has none.
ScanWhile ==
    /\ pc = "while"
    /\ IF while_cond(scan_len)
       THEN \E w \in HexWords \cup {<<>>} :
               IF w = <<>>
               THEN /\ Return("StreamError")
                    /\ UNCHANGED <<words, word_pos, unread>>
               ELSE /\ words' = Append(words, w)
                    /\ word_pos' = 0
                    /\ pc' = "hex_word"
                    /\ UNCHANGED <<result, unread>>
       ELSE /\ Return("Ok")
            /\ unread' \in {<<>>} \cup {<<w>> : w \in HexWords}
            /\ UNCHANGED <<words, word_pos>>
    /\ UNCHANGED <<scan_len, declared, target, target0>>
    /\ UNCHANGED <<host, bytesVars, bufVars, genVars>>

\* scan_hex_word decodes the next pair of the word and calls the callback.
ScanHexPair ==
    /\ pc = "hex_word"
    /\ word_pos < Len(words[Len(words)])
    /\ LET p == words[Len(words)][word_pos + 1] IN
       IF ~pair_ok(p)
       THEN Return("StreamError") /\ UNCHANGED <<scan_len, target, word_pos>>
       ELSE LET r == closure(scan_len, target, hex_value(p)) IN
            IF r.res # "Ok"
            THEN Return(r.res) /\ UNCHANGED <<scan_len, target, word_pos>>
            ELSE /\ scan_len' = r.len
                 /\ target' = r.target
                 /\ word_pos' = word_pos + 1
                 /\ UNCHANGED <<pc, result>>
    /\ UNCHANGED <<declared, target0, words, unread>>
    /\ UNCHANGED <<host, bytesVars, bufVars, genVars>>

\* scan_hex_word returns Ok(()) at the end of the word.
ScanHexWordEnd ==
    /\ pc = "hex_word"
    /\ word_pos = Len(words[Len(words)])
    /\ pc' = "while"
    /\ UNCHANGED <<scan_len, declared, target, target0, words, word_pos,
                   unread, result>>
    /\ UNCHANGED <<host, bytesVars, bufVars, genVars>>

InitScan ==
    /\ host \in Hosts
    /\ BytesIdle
    /\ BufIdle
    /\ GenIdle
    /\ pc = "skip_literal"
    /\ scan_len = 0
    /\ declared = -1
    /\ target0 \in {<<>>, <<255>>}
    /\ target = [buf |-> target0, cap |-> Len(target0)]
    /\ words = <<>>
    /\ word_pos = 0
    /\ unread = <<>>
    /\ result = "running"

NextScan ==
    ScanSkipLiteral \/ ScanU16 \/ ScanWhile \/ ScanHexPair \/ ScanHexWordEnd

SpecScan == InitScan /\ [][NextScan]_vars

\* The entry's hex part as the stream holds it, and what scan_into added.
RECURSIVE Flatten(_)
Flatten(ws) == IF ws = <<>> THEN <<>> ELSE Head(ws) \o Flatten(Tail(ws))

Presented == Flatten(words \o unread)
WellFormed == \A i \in 1..Len(Presented) : pair_ok(Presented[i])
Appended == SubSeq(target.buf, Len(target0) + 1, Len(target.buf))

\* The pair counts at which a hex word of the entry ends (0: before any).
Boundaries ==
    {Len(Flatten(SubSeq(words \o unread, 1, k))) :
        k \in 0..Len(words \o unread)}

(***************************************************************************)
(* C7 as stated: whenever a well-formed entry presents more hex pairs      *)
(* than it declares, scan_into returns LongGenericData, also for a         *)
(* declared length of 0 and for excess pairs in a following word.          *)
(***************************************************************************)
C7_Original ==
    (pc = "done" /\ declared >= 0 /\ WellFormed
        /\ Len(Presented) > declared)
    => result = "LongGenericData"

(***************************************************************************)
(* C7 amended: when a well-formed entry presents more hex pairs than it    *)
(* declares, scan_into returns LongGenericData exactly when the hex word   *)
(* holding the last declared byte holds further pairs; when the declared   *)
(* bytes end with a word (a declared length of 0 included) it returns Ok   *)
(* and leaves the following words unread in the stream.                    *)
(***************************************************************************)
C7_LongOnlyInsideWord ==
    (pc = "done" /\ declared >= 0 /\ WellFormed
        /\ Len(Presented) > declared)
    => /\ result \in {"Ok", "LongGenericData"}
       /\ (result = "LongGenericData") <=> (declared \notin Boundaries)
       /\ result = "Ok" =>
              /\ unread # <<>>
              /\ Len(Flatten(words)) = declared

\* Both outcomes: an overrun inside a word, and an excess word left unread.
C7_Witness ==
    /\ pc = "done" /\ WellFormed
    /\ declared = 1
    /\ result = "Ok"
    /\ Len(words) = 1 /\ unread # <<>>

(***************************************************************************)
(* C8: at every point of scan_into the bytes appended to the target are    *)
(* the decoded pairs of the input, in input order, and never more than     *)
(* the declared length; scan_into returns Ok or LongGenericData only with  *)
(* exactly the declared number of bytes appended.                          *)
(***************************************************************************)
C8_AppendsAtMostDeclared ==
    /\ SubSeq(target.buf, 1, Len(target0)) = target0
    /\ Len(Appended) <= Max(declared, 0)
    /\ Len(Appended) <= Len(Flatten(words))
    /\ \A i \in 1..Len(Appended) :
          /\ pair_ok(Flatten(words)[i])
          /\ Appended[i] = 16 * Flatten(words)[i][1] + Flatten(words)[i][2]
    /\ result \in {"Ok", "LongGenericData"} => Len(Appended) = declared
    /\ result \in {"running", "Ok", "LongGenericData", "StreamError"}
    /\ result # "running" <=> pc = "done"

\* An overrun inside a word: two bytes declared, a third pair in the word.
C8_Witness ==
    /\ result = "LongGenericData"
    /\ declared = 2
    /\ Len(Appended) = 2
    /\ Appended[1] # Appended[2]
    /\ target0 # <<>>

(***************************************************************************)
(* The collaborators of GenericRecordData that live outside bits/bytes.rs  *)
(* and bits/rdata.rs: the Nest, the parser over it, and the concrete       *)
(* record data types.  A Nest is a range [off, len] of a message ctx; its  *)
(* parser reads that range and follows compressed names into ctx.          *)
(***************************************************************************)
\* Nest::as_bytes
as_bytes(n) == [i \in 1..n.len |-> n.ctx[n.off + i]]

\* Nest::parser: a cursor [ctx, pos, end] over the nest's range.
nest_parser(n) == [ctx |-> n.ctx, pos |-> n.off, end |-> n.off + n.len]

\* ParseBytes::left
left(p) == p.end - p.pos

\* The bytes the parser has not consumed, as a BytesSlice view of ctx.
parser_view(p) == [off |-> p.pos, len |-> p.end - p.pos]

\* ParseBytes::parse_nest
parse_nest(p, n) ==
    IF n > left(p)
    THEN [res |-> "UnexpectedEnd", nest |-> NoNest, parser |-> p]
    ELSE [res |-> "Ok",
          nest |-> [ctx |-> p.ctx, off |-> p.pos, len |-> n],
          parser |-> [p EXCEPT !.pos = p.pos + n]]

\* Nest::compose: the captured bytes, pushed as they are.
nest_compose(n, t) == [res |-> "Ok", target |-> push_bytes(t, as_bytes(n))]

\* A domain name read at position pos of ctx, reading no further than
\* limit: labels up to the root label, a compression pointer continuing
\* the name elsewhere in the message.  jumps bounds the pointers followed.
RECURSIVE name_at(_, _, _, _)
name_at(ctx, pos, limit, jumps) ==
    IF pos >= limit
    THEN [res |-> "UnexpectedEnd", labels |-> <<>>, next |-> pos]
    ELSE LET b == ctx[pos + 1] IN
         IF b = 0 THEN [res |-> "Ok", labels |-> <<>>, next |-> pos + 1]
         ELSE IF b >= 192
         THEN IF pos + 1 >= limit
              THEN [res |-> "UnexpectedEnd", labels |-> <<>>, next |-> pos]
              ELSE LET to == (b - 192) * 256 + ctx[pos + 2] IN
                   IF jumps = 0 \/ to >= Len(ctx)
                   THEN [res |-> "FormErr", labels |-> <<>>, next |-> pos]
                   ELSE LET r == name_at(ctx, to, Len(ctx), jumps - 1) IN
                        [r EXCEPT !.next = pos + 2]
         ELSE IF b >= 64
         THEN [res |-> "FormErr", labels |-> <<>>, next |-> pos]
         ELSE IF pos + 1 + b > limit
         THEN [res |-> "UnexpectedEnd", labels |-> <<>>, next |-> pos]
         ELSE LET r == name_at(ctx, pos + 1 + b, limit, jumps) IN
              IF r.res # "Ok" THEN r
              ELSE [r EXCEPT !.labels =
                       <<[i \in 1..b |-> ctx[pos + 1 + i]]>> \o r.labels]

\* One field of a concrete type.  A field's value is a sequence of byte
\* strings: the labels of a name, or one string holding a number's or an
\* address's bytes, or the character strings of a text.
FieldErr(e, p) == [res |-> e, val |-> <<>>, parser |-> p]
FieldOk(v, p, n) ==
    [res |-> "Ok", val |-> v, parser |-> [p EXCEPT !.pos = p.pos + n]]

RECURSIVE parse_cstrs(_, _)
parse_cstrs(h, p) ==
    IF left(p) = 0 THEN FieldOk(<<>>, p, 0)
    ELSE LET l == split_u8(p.ctx, parser_view(p)) IN
         LET s == split_bytes(l.rest, l.num) IN
         IF s.res # "Ok" THEN FieldErr(s.res, p)
         ELSE LET r == parse_cstrs(h, [p EXCEPT !.pos = p.pos + 1 + l.num]) IN
              IF r.res # "Ok" THEN FieldErr(r.res, p)
              ELSE [r EXCEPT !.val = <<ViewBytes(p.ctx, s.bytes)>> \o r.val]

parse_field(h, kind, p) ==
    LET v == parser_view(p) IN
    CASE kind = "name" ->
           LET r == name_at(p.ctx, p.pos, p.end, Len(p.ctx)) IN
           IF r.res # "Ok" THEN FieldErr(r.res, p)
           ELSE FieldOk(r.labels, p, r.next - p.pos)
      [] kind = "u8" ->
           LET r == split_u8(p.ctx, v) IN
           IF r.res # "Ok" THEN FieldErr(r.res, p)
           ELSE FieldOk(<<<<r.num>>>>, p, 1)
      [] kind = "u16" ->
           LET r == split_u16(h, p.ctx, v) IN
           IF r.res # "Ok" THEN FieldErr(r.res, p)
           ELSE FieldOk(<<<<r.num>>>>, p, 2)
      [] kind = "u32" ->
           LET r == split_u32(h, p.ctx, v) IN
           IF r.res # "Ok" THEN FieldErr(r.res, p)
           ELSE FieldOk(<<<<r.wide.hi, r.wide.lo>>>>, p, 4)
      [] kind \in {"addr4", "addr16"} ->
           LET n == IF kind = "addr4" THEN 4 ELSE 16
               r == split_bytes(v, n)
           IN  IF r.res # "Ok" THEN FieldErr(r.res, p)
               ELSE FieldOk(<<ViewBytes(p.ctx, r.bytes)>>, p, n)
      [] kind = "cstr" ->
           LET l == split_u8(p.ctx, v) IN
           IF l.res # "Ok" THEN FieldErr(l.res, p)
           ELSE LET s == split_bytes(l.rest, l.num) IN
                IF s.res # "Ok" THEN FieldErr(s.res, p)
                ELSE FieldOk(<<ViewBytes(p.ctx, s.bytes)>>, p, 1 + l.num)
      [] kind = "cstrs" -> parse_cstrs(h, p)
      [] kind = "rest" -> FieldOk(<<ViewBytes(p.ctx, v)>>, p, v.len)

\* The record types of RFC 1035 and RFC 3596 that rdata.rs names.
OneName   == {"Cname", "Mb", "Md", "Mf", "Mg", "Mr", "Ns", "Ptr"}
Concretes == OneName \cup {"A", "Hinfo", "Minfo", "Mx", "Null", "Soa", "Txt",
                           "Wks", "Aaaa"}

\* The wire layout of a concrete type's record data.
Layout(R) ==
    CASE R \in OneName -> <<"name">>
      [] R = "A"       -> <<"addr4">>
      [] R = "Aaaa"    -> <<"addr16">>
      [] R = "Hinfo"   -> <<"cstr", "cstr">>
      [] R = "Minfo"   -> <<"name", "name">>
      [] R = "Mx"      -> <<"u16", "name">>
      [] R = "Null"    -> <<"rest">>
      [] R = "Soa"     -> <<"name", "name", "u32", "u32", "u32", "u32", "u32">>
      [] R = "Txt"     -> <<"cstrs">>
      [] R = "Wks"     -> <<"addr4", "u8", "rest">>

RECURSIVE parse_fields(_, _, _)
parse_fields(h, layout, p) ==
    IF layout = <<>> THEN [res |-> "Ok", val |-> <<>>, parser |-> p]
    ELSE LET f == parse_field(h, Head(layout), p) IN
         IF f.res # "Ok" THEN [res |-> f.res, val |-> <<>>, parser |-> p]
         ELSE LET r == parse_fields(h, Tail(layout), f.parser) IN
              IF r.res # "Ok" THEN [res |-> r.res, val |-> <<>>, parser |-> p]
              ELSE [r EXCEPT !.val = <<f.val>> \o r.val]

\* R::parse(rtype, parser) of a concrete type R: it declines a tag that is
\* not its own, and else parses its fields, with names decompressed.
\* The outcome is Option<ParseResult<R>>: [kind, err, val].
concrete_parse(h, R, rtype, p) ==
    IF rtype # R THEN [kind |-> "None", err |-> "", val |-> <<>>]
    ELSE LET r == parse_fields(h, Layout(R), p) IN
         IF r.res # "Ok" THEN [kind |-> "Err", err |-> r.res, val |-> <<>>]
         ELSE [kind |-> "Ok", err |-> "", val |-> r.val]

\* <R as fmt::Display>::fmt of a concrete value: its text, appended.
concrete_fmt(R, val, f) ==
    [res |-> "Ok", text |-> Append(f, [lit |-> R, val |-> val])]

\* <str as fmt::Display>::fmt
str_fmt(s, f) == [res |-> "Ok", text |-> Append(f, [lit |-> s, val |-> <<>>])]

(***************************************************************************)
(* GenericRecordData: a type tag and the record data as a Nest.            *)
(***************************************************************************)
GenericRecordData_new(rtype, data) == [rtype |-> rtype, data |-> data]

GenericRecordData_rtype(self) == self.rtype

GenericRecordData_data(self) == self.data

\* concrete::<R>
GenericRecordData_concrete(h, R, self) ==
    concrete_parse(h, R, self.rtype, nest_parser(self.data))

\* A faulty variant: a failed re-parse reported as a formatting error.
GenericRecordData_fmt_strict(h, R, self, f) ==
    LET c == concrete_parse(h, R, self.rtype, nest_parser(self.data)) IN
    CASE c.kind = "Ok"   -> concrete_fmt(R, c.val, f)
      [] c.kind = "Err"  -> [res |-> "Err", text |-> f]
      [] c.kind = "None" -> [res |-> "Ok", text |-> f]

\* fmt::<R>
GenericRecordData_fmt(h, R, self, f) ==
    LET c == concrete_parse(h, R, self.rtype, nest_parser(self.data)) IN
    CASE c.kind = "Ok"   -> concrete_fmt(R, c.val, f)
      [] c.kind = "Err"  -> [res |-> "Ok", text |-> f]
      [] c.kind = "None" -> [res |-> "Ok", text |-> f]

\* <GenericRecordData as RecordData>::compose
GenericRecordData_compose(self, t) == nest_compose(self.data, t)

\* A faulty variant: the fallback declines the tags it has no concrete type for.
GenericRecordData_parse_known(rtype, p) ==
    IF rtype \notin Concretes
    THEN [kind |-> "None", err |-> "", val |-> NoG, parser |-> p]
    ELSE LET r == parse_nest(p, left(p)) IN
         [kind |-> "Ok", err |-> "",
          val |-> GenericRecordData_new(rtype, r.nest), parser |-> r.parser]

\* <GenericRecordData as RecordData>::parse
GenericRecordData_parse(rtype, p) ==
    LET len == left(p)
        r   == parse_nest(p, len)
    IN  IF r.res # "Ok"
        THEN [kind |-> "Err", err |-> r.res, val |-> NoG, parser |-> r.parser]
        ELSE [kind |-> "Ok", err |-> "",
              val |-> GenericRecordData_new(rtype, r.nest),
              parser |-> r.parser]

\* The arms of Display's match on the tag: the tag of each arm is the
\* concrete type R the arm formats the value as (RFC 1035, RFC 3596).
display_arms ==
    {"A", "Cname", "Hinfo", "Mb", "Md", "Mf", "Mg", "Minfo", "Mr", "Mx",
     "Ns", "Null", "Ptr", "Soa", "Txt", "Wks", "Aaaa"}

\* <GenericRecordData as fmt::Display>::fmt
Display_fmt(h, self, f) ==
    IF self.rtype \in display_arms
    THEN GenericRecordData_fmt(h, self.rtype, self, f)
    ELSE str_fmt("...", f)

\* A faulty variant: the two sides compared by their captured bytes.
rdata_eq_raw(h, D, l, r) == as_bytes(l.data) = as_bytes(r.data)

\* rdata_eq::<D>: the two parse outcomes compared, Option<ParseResult<D>>.
rdata_eq(h, D, l, r) ==
    concrete_parse(h, D, l.rtype, nest_parser(l.data))
        = concrete_parse(h, D, r.rtype, nest_parser(r.data))

\* The arms of eq's match on the tag that compare through rdata_eq::<D>:
\* the tag of each arm is the concrete type D.
eq_arms ==
    {"Cname", "Mb", "Md", "Mf", "Mg", "Minfo", "Mr", "Mx", "Ns", "Ptr",
     "Soa", "Txt"}

\* <GenericRecordData as PartialEq>::eq
GenericRecordData_eq(h, self, other) ==
    IF self.rtype # other.rtype THEN FALSE
    ELSE IF self.rtype \in eq_arms
         THEN rdata_eq(h, self.rtype, self, other)
         ELSE as_bytes(self.data) = as_bytes(other.data)

(***************************************************************************)
(* A caller of GenericRecordData: it parses a value from a cursor over a   *)
(* record's data, and then either composes it into an empty sink, parses   *)
(* the composed bytes back and compares, or formats the value.             *)
(***************************************************************************)
MaxMsg == 4        \* longest message a value is parsed from

\* Message bytes: the root label, a label of one byte, a pointer's first byte.
MsgBytes == {0, 1, 192}
GenTags  == {"A", "Cname", "Mx", "Txt", "Null", "Aaaa", "Srv"}
FmtTypes == {"A", "Cname", "Txt"}

GParse ==
    /\ gstep = "start"
    /\ LET r == GenericRecordData_parse(tag0, cursor0) IN
       /\ parsed' = [kind |-> r.kind, err |-> r.err]
       /\ g' = r.val
       /\ cursor' = r.parser
    /\ gstep' = "parsed"
    /\ UNCHANGED <<cursor0, tag0, g2, composed, back, same, out>>
    /\ UNCHANGED <<host, bytesVars, bufVars, scanVars>>

GCompose ==
    /\ gstep = "parsed"
    /\ parsed.kind = "Ok"
    /\ composed' = GenericRecordData_compose(g, EmptyVec).target.buf
    /\ gstep' = "composed"
    /\ UNCHANGED <<cursor0, tag0, cursor, g, g2, parsed, back, same, out>>
    /\ UNCHANGED <<host, bytesVars, bufVars, scanVars>>

GParseBack ==
    /\ gstep = "composed"
    /\ LET p == [ctx |-> composed, pos |-> 0, end |-> Len(composed)]
           r == GenericRecordData_parse(GenericRecordData_rtype(g), p)
       IN  /\ g2' = r.val
           /\ back' = [kind |-> r.kind, left |-> left(r.parser)]
    /\ gstep' = "back"
    /\ UNCHANGED <<cursor0, tag0, cursor, g, parsed, composed, same, out>>
    /\ UNCHANGED <<host, bytesVars, bufVars, scanVars>>

GCompare ==
    /\ gstep = "back"
    /\ back.kind = "Ok"
    /\ same' = IF GenericRecordData_eq(host, g2, g)
               THEN "equal" ELSE "unequal"
    /\ gstep' = "compared"
    /\ UNCHANGED <<cursor0, tag0, cursor, g, g2, parsed, composed, back,
                   out>>
    /\ UNCHANGED <<host, bytesVars, bufVars, scanVars>>

Formatted(via, r) ==
    /\ gstep \in {"parsed", "formatted"}
    /\ parsed.kind = "Ok"
    /\ Len(out) < 2
    /\ out # <<>> => out[1].via = via
    /\ out' = Append(out, [via |-> via, res |-> r.res, text |-> r.text])
    /\ gstep' = "formatted"
    /\ UNCHANGED <<cursor0, tag0, cursor, g, g2, parsed, composed, back,
                   same>>
    /\ UNCHANGED <<host, bytesVars, bufVars, scanVars>>

\* format!("{}", g)
GDisplay == Formatted("Display", Display_fmt(host, g, <<>>))

\* g.fmt::<R>(f)
GFmt == \E R \in FmtTypes :
    Formatted(R, GenericRecordData_fmt(host, R, g, <<>>))

InitGeneric ==
    /\ host \in Hosts
    /\ BytesIdle /\ BufIdle /\ ScanIdle
    /\ \E m \in SeqsUpTo(MsgBytes, MaxMsg) :
         \E p \in 0..MaxMsg, e \in 0..MaxMsg :
            /\ p <= e /\ e <= Len(m)
            /\ cursor0 = [ctx |-> m, pos |-> p, end |-> e]
    /\ tag0 \in GenTags
    /\ cursor = cursor0
    /\ g = NoG /\ g2 = NoG
    /\ parsed = [kind |-> "none", err |-> ""]
    /\ composed = <<>>
    /\ back = [kind |-> "none", left |-> 0]
    /\ same = "unset"
    /\ out = <<>>
    /\ gstep = "start"

NextGeneric == GParse \/ GCompose \/ GParseBack \/ GCompare \/ GDisplay \/ GFmt

SpecGeneric == InitGeneric /\ [][NextGeneric]_vars

\* The bytes the cursor had left when the value was parsed from it.
Remainder == [i \in 1..(cursor0.end - cursor0.pos) |->
                 cursor0.ctx[cursor0.pos + i]]

(***************************************************************************)
(* C9: GenericRecordData::parse never declines, whatever the tag and the   *)
(* cursor: it returns a value holding the given tag and exactly the bytes  *)
(* the cursor had left, in order, and leaves the cursor with none.         *)
(***************************************************************************)
C9_ParseIsUniversalFallback ==
    gstep # "start" =>
        /\ parsed.kind # "None"
        /\ parsed.kind = "Ok" =>
              /\ as_bytes(GenericRecordData_data(g)) = Remainder
              /\ GenericRecordData_rtype(g) = tag0
              /\ left(cursor) = 0
              /\ cursor.pos = cursor0.end

\* An unknown tag, parsed from a cursor in the middle of a message.
C9_Witness ==
    /\ gstep = "parsed"
    /\ parsed.kind = "Ok"
    /\ tag0 = "Srv"
    /\ cursor0.pos > 0
    /\ Len(Remainder) >= 2
    /\ cursor0.end < Len(cursor0.ctx)

(***************************************************************************)
(* C4 as stated: composing a value into an empty sink writes its captured  *)
(* bytes, and parsing them back under the value's tag gives a value equal  *)
(* to it and a fully consumed cursor, for the name-bearing tags too.       *)
(***************************************************************************)
C4_RoundTrip ==
    gstep = "compared" =>
        /\ composed = as_bytes(g.data)
        /\ back.left = 0
        /\ same = "equal"

(***************************************************************************)
(* C10: Display of a value whose tag is in the display table gives the     *)
(* concrete type's text when the re-parse succeeds and nothing, with       *)
(* success, when it fails; any other tag gives "..."; fmt::<R> gives       *)
(* nothing, with success, when R declines the tag; and formatting a value  *)
(* twice gives the same text and leaves the value as it was parsed.        *)
(***************************************************************************)
DisplayTable ==
    {"A", "Cname", "Hinfo", "Mb", "Md", "Mf", "Mg", "Minfo", "Mr", "Mx",
     "Ns", "Null", "Ptr", "Soa", "Txt", "Wks", "Aaaa"}

ExpectedText(R) ==
    LET c == GenericRecordData_concrete(host, R, g) IN
    IF c.kind = "Ok" THEN <<[lit |-> R, val |-> c.val]>> ELSE <<>>

C10_DisplayBestEffort ==
    /\ \A i \in 1..Len(out) :
          /\ out[i].res = "Ok"
          /\ out[i].via = "Display" =>
                out[i].text = IF g.rtype \in DisplayTable
                              THEN ExpectedText(g.rtype)
                              ELSE <<[lit |-> "...", val |-> <<>>]>>
          /\ out[i].via # "Display" => out[i].text = ExpectedText(out[i].via)
          /\ out[i] = out[1]
    /\ out # <<>> => g = GenericRecordData_new(tag0,
                            [ctx |-> cursor0.ctx, off |-> cursor0.pos,
                             len |-> cursor0.end - cursor0.pos])

\* A name that re-parses, displayed twice.
C10_Witness ==
    /\ Len(out) = 2
    /\ out[1].via = "Display"
    /\ g.rtype = "Cname"
    /\ out[2].text # <<>>
    /\ out[2].text[1].val # <<<<>>>>

(***************************************************************************)
(* Two values taken from one message, compared with ==.                    *)
(***************************************************************************)
MaxEqMsg == 3      \* longest message the two compared values share

EqTags == {"A", "Cname", "Mx", "Txt"}

NestsOf(m) ==
    {[ctx |-> m, off |-> o, len |-> l] :
        o \in 0..Len(m), l \in 0..Len(m)}

EqCompare ==
    /\ gstep = "pair"
    /\ same' = IF GenericRecordData_eq(host, g, g2)
               THEN "equal" ELSE "unequal"
    /\ gstep' = "compared"
    /\ UNCHANGED <<cursor0, tag0, cursor, g, g2, parsed, composed, back,
                   out>>
    /\ UNCHANGED <<host, bytesVars, bufVars, scanVars>>

InitEq ==
    /\ host \in Hosts
    /\ BytesIdle /\ BufIdle /\ ScanIdle
    /\ \E m \in SeqsUpTo(MsgBytes, MaxEqMsg) :
         \E n1 \in NestsOf(m), n2 \in NestsOf(m) :
            /\ n1.off + n1.len <= Len(m)
            /\ n2.off + n2.len <= Len(m)
            /\ \E t1 \in EqTags, t2 \in EqTags :
                  /\ g = GenericRecordData_new(t1, n1)
                  /\ g2 = GenericRecordData_new(t2, n2)
            /\ cursor0 = [ctx |-> m, pos |-> 0, end |-> Len(m)]
    /\ tag0 = "none"
    /\ cursor = cursor0
    /\ parsed = [kind |-> "none", err |-> ""]
    /\ composed = <<>>
    /\ back = [kind |-> "none", left |-> 0]
    /\ same = "unset"
    /\ out = <<>>
    /\ gstep = "pair"

NextEq == EqCompare

SpecEq == InitEq /\ [][NextEq]_vars

\* The tags whose record data carries domain names.
NameBearing ==
    {"Cname", "Mb", "Md", "Mf", "Mg", "Minfo", "Mr", "Mx", "Ns", "Ptr", "Soa"}

Left  == GenericRecordData_concrete(host, g.rtype, g)
Right == GenericRecordData_concrete(host, g2.rtype, g2)

(***************************************************************************)
(* C5 as stated: two values of one name-bearing tag compare equal exactly  *)
(* when both re-parse successfully as the concrete type and the            *)
(* decompressed concrete values are equal.                                 *)
(***************************************************************************)
C5_Original ==
    (gstep = "compared" /\ g.rtype = g2.rtype /\ g.rtype \in NameBearing)
    => ((same = "equal") <=>
           (Left.kind = "Ok" /\ Right.kind = "Ok" /\ Left.val = Right.val))

(***************************************************************************)
(* C5 amended: two values of one name-bearing tag compare equal exactly    *)
(* when their re-parse outcomes are equal: both succeed with equal         *)
(* decompressed values, or both fail with the same error.  The captured    *)
(* bytes decide nothing.                                                   *)
(***************************************************************************)
C5_EqIsOutcomeEquality ==
    (gstep = "compared" /\ g.rtype = g2.rtype /\ g.rtype \in NameBearing)
    => ((same = "equal") <=>
           \/ Left.kind = "Ok" /\ Right.kind = "Ok" /\ Left.val = Right.val
           \/ Left.kind = "Err" /\ Right.kind = "Err" /\ Left.err = Right.err)

\* One name, written out on one side and as a pointer on the other.
C5_Witness ==
    /\ gstep = "compared"
    /\ g.rtype = "Cname" /\ g2.rtype = "Cname"
    /\ same = "equal"
    /\ Left.kind = "Ok"
    /\ as_bytes(g.data) # as_bytes(g2.data)
    /\ Len(as_bytes(g2.data)) = 2
    /\ as_bytes(g2.data)[1] = 192

(***************************************************************************)
(* C6 as stated: values with different tags compare unequal, and two       *)
(* values of one tag that carries no domain names (Txt among them)         *)
(* compare equal exactly when their captured bytes are identical.          *)
(***************************************************************************)
C6_RawEqualityElsewhere ==
    gstep = "compared" =>
        /\ g.rtype # g2.rtype => same = "unequal"
        /\ (g.rtype = g2.rtype /\ g.rtype \notin NameBearing) =>
              ((same = "equal") <=> (as_bytes(g.data) = as_bytes(g2.data)))

=============================================================================
